---- MODULE Spec2Model ----
(***************************************************************************)
(* Study-Buddy-RAG: document chunking, the vector store adapter, the RAG   *)
(* engine's query history, batch upload, and quiz generation.              *)
(*                                                                         *)
(* Text is a TLA+ string.  The chunker is also studied on its own, on the  *)
(* word sequence that text.split() yields: a chunk is a slice of that      *)
(* sequence (the code joins it with single spaces).                        *)
(***************************************************************************)
EXTENDS Integers, Sequences, FiniteSets, TLC

VARIABLES
    chunk_size,          \* DocumentProcessor.chunk_size
    chunk_overlap,       \* DocumentProcessor.chunk_overlap
    store,               \* VectorStore: [live, entries]
    query_history,       \* RAGEngine.query_history
    documents_uploaded,  \* st.session_state.documents_uploaded
    quiz_data,           \* st.session_state.quiz_data
    quiz_answers,        \* st.session_state.quiz_answers
    lastRun,             \* what the last script run did and showed
    queryLog,            \* every question handed to RAGEngine.query, in call order
    callText,            \* words handed to the last _create_chunks call
    callResult,          \* outcome of the last _create_chunks call
    quizInput,           \* arguments of the last generate_quiz call
    quizOutput,          \* value the last generate_quiz call returned
    opInput,             \* operation and arguments of the last direct call
    opOutput             \* value the last direct call returned

chunkVars == <<chunk_size, chunk_overlap, callText, callResult>>
quizVars == <<quizInput, quizOutput>>
callVars == <<opInput, opOutput>>
appVars == <<store, query_history, documents_uploaded, quiz_data, quiz_answers,
             lastRun, queryLog>>
vars == <<chunk_size, chunk_overlap, store, query_history, documents_uploaded,
          quiz_data, quiz_answers, lastRun, queryLog, callText, callResult,
          quizInput, quizOutput, opInput, opOutput>>

----------------------------------------------------------------------------
(* Bounds *)
MaxWords     == 7   \* words of a text handed to the chunker
MaxSize      == 4   \* chunk sizes tried
MaxOverlap   == 5   \* chunk overlaps tried
MaxPassages  == 2   \* passages a quiz search returns
MaxQuestions == 5   \* questions asked of generate_quiz
MaxStored    == 1   \* entries of the collection
MaxBatch     == 2   \* files of one upload
MaxHistory   == 2   \* questions kept in query_history

----------------------------------------------------------------------------
(* Small arithmetic helpers *)
Min(a, b) == IF a < b THEN a ELSE b

CeilDiv(a, b) == (a + b - 1) \div b

Elems(seq) == {seq[k] : k \in 1..Len(seq)}

\* the last n elements of seq (all of it when it is shorter)
LastN(seq, n) == SubSeq(seq, Len(seq) - Min(n, Len(seq)) + 1, Len(seq))

\* the first n elements of seq (all of it when it is shorter): seq[:n]
FirstN(seq, n) == SubSeq(seq, 1, Min(n, Len(seq)))

----------------------------------------------------------------------------
(* Python string operations.  A string is a TLA+ string; TLC evaluates Len,  *)
(* \o, SubSeq, Head and Tail on strings.                                     *)

CharAt(s, i) == SubSeq(s, i, i)

UpperLetters == "ABCDEFGHIJKLMNOPQRSTUVWXYZ"
LowerLetters == "abcdefghijklmnopqrstuvwxyz"
Digits       == "0123456789"

IndexIn(alphabet, c) ==
    IF \E i \in 1..Len(alphabet) : CharAt(alphabet, i) = c
    THEN CHOOSE i \in 1..Len(alphabet) : CharAt(alphabet, i) = c
    ELSE 0

CharsOf(alphabet) == {CharAt(alphabet, i) : i \in 1..Len(alphabet)}

UpperChars == CharsOf(UpperLetters)
LowerChars == CharsOf(LowerLetters)
\* \w of Python's re: letters, digits and the underscore
WordChars  == UpperChars \cup LowerChars \cup CharsOf(Digits) \cup {"_"}
SpaceChars == {" ", "\n", "\t"}

LowerOf == [c \in UpperChars |-> CharAt(LowerLetters, IndexIn(UpperLetters, c))]
UpperOf == [c \in LowerChars |-> CharAt(UpperLetters, IndexIn(LowerLetters, c))]


LowerChar(c) == IF c \in UpperChars THEN LowerOf[c] ELSE c
UpperChar(c) == IF c \in LowerChars THEN UpperOf[c] ELSE c

RECURSIVE StrLower(_)
\* str.lower(), character by character (halving keeps the recursion shallow)
StrLower(s) ==
    IF s = "" THEN ""
    ELSE IF Len(s) = 1 THEN LowerChar(s)
    ELSE StrLower(SubSeq(s, 1, Len(s) \div 2))
         \o StrLower(SubSeq(s, Len(s) \div 2 + 1, Len(s)))

RECURSIVE StrUpper(_)
\* str.upper(), character by character
StrUpper(s) ==
    IF s = "" THEN ""
    ELSE IF Len(s) = 1 THEN UpperChar(s)
    ELSE StrUpper(SubSeq(s, 1, Len(s) \div 2))
         \o StrUpper(SubSeq(s, Len(s) \div 2 + 1, Len(s)))

\* s[:n]
Take(s, n) == SubSeq(s, 1, Min(n, Len(s)))

\* s[n:]
Drop(s, n) == SubSeq(s, Min(n, Len(s)) + 1, Len(s))

StartsWithAt(s, p, i) ==
    /\ i + Len(p) - 1 <= Len(s)
    /\ SubSeq(s, i, i + Len(p) - 1) = p

\* the least element of a non-empty set of integers
MinOf(S) == CHOOSE i \in S : \A k \in S : i <= k

\* the least element of S, or default when S is empty
MinOr(S, default) == IF S = {} THEN default ELSE MinOf(S)

\* 1-based index of the first occurrence of p in s, 0 when there is none
Find(s, p) == MinOr({i \in 1..(Len(s) - Len(p) + 1) : StartsWithAt(s, p, i)}, 0)

\* s with the occurrence of old at index i replaced by new (s itself for i = 0)
ReplaceAt(s, i, old, new) ==
    IF i = 0 THEN s
    ELSE SubSeq(s, 1, i - 1) \o new \o Drop(s, i + Len(old) - 1)

\* s.replace(old, new, 1)
ReplaceFirst(s, old, new) == ReplaceAt(s, Find(s, old), old, new)

RECURSIVE ReplaceAll(_, _, _)
ReplaceAllFrom(s, i, old, new) ==
    IF i = 0 THEN s
    ELSE SubSeq(s, 1, i - 1) \o new
         \o ReplaceAll(Drop(s, i + Len(old) - 1), old, new)

\* s.replace(old, new), old non-empty
ReplaceAll(s, old, new) == ReplaceAllFrom(s, Find(s, old), old, new)

RECURSIVE SplitOn(_, _)
SplitOnAt(s, i, sep) ==
    IF i = 0 THEN <<s>>
    ELSE <<SubSeq(s, 1, i - 1)>> \o SplitOn(Drop(s, i), sep)

\* s.split(sep) for a one-character sep: empty pieces are kept
SplitOn(s, sep) == SplitOnAt(s, Find(s, sep), sep)

RECURSIVE LStrip(_)
LStrip(s) == IF s # "" /\ Head(s) \in SpaceChars THEN LStrip(Tail(s)) ELSE s

RECURSIVE RStrip(_)
RStrip(s) ==
    IF s # "" /\ CharAt(s, Len(s)) \in SpaceChars
    THEN RStrip(SubSeq(s, 1, Len(s) - 1)) ELSE s

\* s.strip()
Strip(s) == RStrip(LStrip(s))

RECURSIVE SplitWords(_)
\* the first piece of t (t starts with a non-space) ends before index e
SplitWordsAt(t, e) == <<SubSeq(t, 1, e - 1)>> \o SplitWords(Drop(t, e - 1))

SplitStripped(t) ==
    IF t = "" THEN <<>>
    ELSE SplitWordsAt(t, MinOr({i \in 1..Len(t) : CharAt(t, i) \in SpaceChars}, Len(t) + 1))

\* s.split(): pieces between runs of whitespace, no empty piece
SplitWords(s) == SplitStripped(LStrip(s))

RECURSIVE Join(_, _)
\* sep.join(parts)
Join(parts, sep) ==
    IF parts = <<>> THEN ""
    ELSE IF Len(parts) = 1 THEN parts[1]
    ELSE parts[1] \o sep \o Join(Tail(parts), sep)

\* chr(65 + i)
Letter(i) == CharAt(UpperLetters, i + 1)

\* all orders random.shuffle can leave a list in
Shuffles(seq) ==
    LET n == Len(seq)
        perms == {p \in [1..n -> 1..n] : \A a, b \in 1..n : p[a] = p[b] => a = b}
    IN  {[k \in 1..n |-> seq[p[k]]] : p \in perms}

----------------------------------------------------------------------------
(* DocumentProcessor._create_chunks *)

\* words[lo:hi] with Python's clipping of the upper index (0-based, hi exclusive)
PySlice(words, lo, hi) == SubSeq(words, lo + 1, Min(hi, Len(words)))

RECURSIVE ChunkLoop(_, _, _, _, _)
\* the loop over range(0, len(words), step), step # 0, from index i on
ChunkLoop(words, size, step, i, chunks) ==
    IF (step > 0 /\ i < Len(words)) \/ (step < 0 /\ i > Len(words))
    THEN ChunkLoop(words, size, step, i + step,
                   Append(chunks, PySlice(words, i, i + size)))
    ELSE chunks

\* mutant: every window is one word short of the size
CreateChunksShortWindow(words, size, overlap) ==
    IF size - overlap = 0
    THEN [status |-> "error", chunks |-> <<>>]
    ELSE [status |-> "ok",
          chunks |-> ChunkLoop(words, size - 1, size - overlap, 0, <<>>)]

\* mutant: the window advances by the full size, ignoring the overlap
CreateChunksNoOverlap(words, size, overlap) ==
    IF size = 0
    THEN [status |-> "error", chunks |-> <<>>]
    ELSE [status |-> "ok", chunks |-> ChunkLoop(words, size, size, 0, <<>>)]

\* range() raises ValueError on a zero step; a negative step gives an empty range
CreateChunks(words, size, overlap) ==
    IF size - overlap = 0
    THEN [status |-> "error", chunks |-> <<>>]
    ELSE [status |-> "ok",
          chunks |-> ChunkLoop(words, size, size - overlap, 0, <<>>)]

----------------------------------------------------------------------------
(* DifficultyAssessor.  Scores are exact rationals [num, den], den > 0; the  *)
(* code computes them in floating point.                                     *)

\* re.findall(r'\b\w+\b', s): the maximal runs of word characters
\* re.findall(r'\b\w+\b', s): the maximal runs of word characters
RECURSIVE WordRuns(_)
WordRunTo(s, b, e) == <<SubSeq(s, b, e - 1)>> \o WordRuns(Drop(s, e - 1))

WordRunFrom(s, b) ==
    WordRunTo(s, b, MinOr({i \in b..Len(s) : CharAt(s, i) \notin WordChars}, Len(s) + 1))

WordRuns(s) ==
    IF \A i \in 1..Len(s) : CharAt(s, i) \notin WordChars THEN <<>>
    ELSE WordRunFrom(s, MinOf({i \in 1..Len(s) : CharAt(s, i) \in WordChars}))

IsVowel(c) == c \in {"a", "e", "i", "o", "u", "y"}

\* the number of vowel groups of the lower-cased word w
VowelGroups(w) ==
    Cardinality({i \in 1..Len(w) :
                    /\ IsVowel(CharAt(w, i))
                    /\ (i = 1 \/ ~IsVowel(CharAt(w, i - 1)))})

AtLeastOne(syllables) == IF syllables = 0 THEN 1 ELSE syllables

\* _count_syllables: vowel groups, one less for a final "e", at least 1
CountSyllables(word) ==
    AtLeastOne(IF word # "" /\ CharAt(word, Len(word)) = "e"
               THEN VowelGroups(StrLower(word)) - 1
               ELSE VowelGroups(StrLower(word)))

ComplexWords == {"analyze", "synthesize", "evaluate", "hypothesis",
                 "methodology", "paradigm", "phenomenon", "conceptual",
                 "theoretical", "empirical"}

SentenceEnds(t) ==
    {i \in 1..Len(t) :
        /\ CharAt(t, i) \in {".", "!", "?"}
        /\ (i = Len(t) \/ CharAt(t, i + 1) \in SpaceChars)}

CountWithTail(t, ends) ==
    IF t = "" THEN 0
    ELSE Cardinality(ends) + (IF Len(t) \in ends THEN 0 ELSE 1)

\* number of sentences nltk.sent_tokenize finds: a sentence ends at '.', '!'
\* or '?' followed by whitespace or the end of the text; text after the last
\* such end is one more sentence
SentenceCount(text) == CountWithTail(Strip(text), SentenceEnds(Strip(text)))

RECURSIVE SumSeq(_)
SumSeq(seq) == IF seq = <<>> THEN 0 ELSE Head(seq) + SumSeq(Tail(seq))

\* assess_text_difficulty before the clamp, as a rational: with W words,
\* S sentences, C words of 3+ syllables, Y syllables, T technical terms,
\* (0.2*W/S + 0.3*100*C/W + 0.3*Y/W + 0.2*100*T/W) / 100
DifficultyScore(W, S, C, Y, T) ==
    IF W = 0 THEN [num |-> 0, den |-> 1]
    ELSE IF S = 0
         THEN [num |-> 300 * C + 3 * Y + 200 * T, den |-> 1000 * W]
         ELSE [num |-> 2 * W * W + 300 * C * S + 3 * Y * S + 200 * T * S,
               den |-> 1000 * W * S]

\* _calculate_metrics over the words of the text
DifficultyOfWords(words, sentences) ==
    DifficultyScore(Len(words), sentences,
                    Len(SelectSeq(words, LAMBDA word : CountSyllables(word) >= 3)),
                    SumSeq([k \in 1..Len(words) |-> CountSyllables(words[k])]),
                    Len(SelectSeq(words, LAMBDA word : word \in ComplexWords)))

\* min(1.0, score)
ClampScore(r) == IF r.num > r.den THEN [num |-> 1, den |-> 1] ELSE r

\* assess_text_difficulty
AssessTextDifficulty(text) ==
    ClampScore(DifficultyOfWords(WordRuns(StrLower(text)), SentenceCount(text)))

\* Config.DIFFICULTY_LEVELS, the band limits in tenths
DifficultyLevels ==
    [beginner     |-> [min_score |-> 0, max_score |-> 3],
     intermediate |-> [min_score |-> 3, max_score |-> 7],
     advanced     |-> [min_score |-> 7, max_score |-> 10]]

InBand(score, band) ==
    /\ band.min_score * score.den <= 10 * score.num
    /\ 10 * score.num <= band.max_score * score.den

\* _matches_difficulty_level; an unknown level has the band [0.0, 1.0]
\* mutant: every score matches every level
MatchesAnyLevel(score, target_level) == TRUE

MatchesDifficultyLevel(score, target_level) ==
    InBand(score, IF target_level \in DOMAIN DifficultyLevels
                  THEN DifficultyLevels[target_level]
                  ELSE [min_score |-> 0, max_score |-> 10])

\* categorize_difficulty
\* mutant: a threshold score belongs to the lower level
CategorizeDifficultyLower(score) ==
    IF 10 * score.num <= 3 * score.den THEN "beginner"
    ELSE IF 10 * score.num <= 7 * score.den THEN "intermediate"
    ELSE "advanced"

CategorizeDifficulty(score) ==
    IF 10 * score.num < 3 * score.den THEN "beginner"
    ELSE IF 10 * score.num < 7 * score.den THEN "intermediate"
    ELSE "advanced"

----------------------------------------------------------------------------
(* VectorStore.  The Chroma collection is the sequence of its entries; live  *)
(* says whether the collection self.collection was bound to at construction  *)
(* still exists in the client.  An operation on a collection that has been   *)
(* deleted raises; an operation that raises returns Raised.                  *)

Raised == [raised |-> TRUE]

IsRaised(v) == "raised" \in DOMAIN v

\* delete_collection: the client drops the collection with all its entries;
\* self.collection keeps referring to the dropped collection.  Deleting a
\* collection that does not exist raises.
DeleteCollection(vs) ==
    IF vs.live
    THEN [live |-> FALSE, entries |-> <<>>]
    ELSE Raised

\* get_collection_count
GetCollectionCount(vs) ==
    IF vs.live THEN [count |-> Len(vs.entries)] ELSE Raised

\* add_documents (ids are fresh uuids); Chroma rejects an empty list of ids
AddDocuments(vs, documents, metadatas) ==
    IF ~vs.live \/ documents = <<>> \/ Len(documents) # Len(metadatas)
    THEN Raised
    ELSE [live |-> TRUE,
          entries |-> vs.entries \o
              [k \in 1..Len(documents) |->
                  [document |-> documents[k], metadata |-> metadatas[k]]]]

\* search: every result the query can return.  The ranking is the embedding
\* model's, so any order of any n_results entries is possible; the result
\* holds results['documents'][0] and results['metadatas'][0].
Search(vs, query, n_results) ==
    IF ~vs.live THEN {Raised}
    ELSE {[documents |-> [k \in 1..Len(hits) |-> hits[k].document],
           metadatas |-> [k \in 1..Len(hits) |-> hits[k].metadata]] :
              hits \in {FirstN(order, n_results) : order \in Shuffles(vs.entries)}}

----------------------------------------------------------------------------
(* RAGEngine *)

\* the results at the indices kept, in order
ResultsAt(search_results, kept) ==
    [documents |-> [k \in 1..Len(kept) |-> search_results.documents[kept[k]]],
     metadatas |-> [k \in 1..Len(kept) |-> search_results.metadatas[kept[k]]]]

\* _filter_by_difficulty
FilterByDifficulty(search_results, difficulty_level) ==
    ResultsAt(search_results,
              SelectSeq([k \in 1..Len(search_results.documents) |-> k],
                  LAMBDA k : MatchesDifficultyLevel(
                      AssessTextDifficulty(search_results.documents[k]),
                      difficulty_level)))

NoInformation == "I couldn't find relevant information in your study materials. Try uploading more documents or rephrasing your question."

ResponseChars == 500

\* _generate_response
GenerateResponse(question, search_results) ==
    IF search_results.documents = <<>> THEN NoInformation
    ELSE "Based on your study materials:\n\n"
         \o Take(Join(FirstN(search_results.documents, 3), " "), ResponseChars)
         \o "..."

BeginnerIndicators == <<"what", "is", "define", "explain", "basic", "simple">>
AdvancedIndicators == <<"analyze", "compare", "evaluate", "synthesize", "critique">>

\* sum(1 for word in indicators if word in question_words)
CountPresent(indicators, question_words) ==
    Cardinality({k \in 1..Len(indicators) : indicators[k] \in Elems(question_words)})

LevelFromCounts(beginner_count, advanced_count) ==
    IF advanced_count > beginner_count THEN "advanced"
    ELSE IF beginner_count > 0 THEN "beginner"
    ELSE "intermediate"

\* _assess_understanding_level
AssessUnderstandingLevel(question) ==
    LevelFromCounts(CountPresent(BeginnerIndicators, SplitWords(StrLower(question))),
                    CountPresent(AdvancedIndicators, SplitWords(StrLower(question))))

\* _suggest_actions
SuggestActions(question, understanding_level) ==
    IF understanding_level = "beginner"
    THEN <<"Try asking for a more detailed explanation",
           "Request examples to illustrate the concept">>
    ELSE IF understanding_level = "intermediate"
    THEN <<"Ask for related concepts to explore",
           "Request practice questions on this topic">>
    ELSE <<"Ask for critical analysis of this topic",
           "Request connections to other advanced concepts">>

\* difficulty_level None
NoLevel == "none"

\* the dict query returns for the filtered sources and the assessed level
QueryDict(question, sources, understanding_level) ==
    [question |-> question,
     response |-> GenerateResponse(question, sources),
     sources |-> sources,
     understanding_level |-> understanding_level,
     suggested_actions |-> SuggestActions(question, understanding_level)]

\* what query returns once the search has returned search_results
QueryResult(question, search_results, difficulty_level) ==
    QueryDict(question,
              IF difficulty_level # NoLevel
              THEN FilterByDifficulty(search_results, difficulty_level)
              ELSE search_results,
              AssessUnderstandingLevel(question))

\* mutant: the question is stored only once the search has returned
HistoryAfterQueryOnSuccess(history, question, found) ==
    IF IsRaised(found) THEN history ELSE Append(history, question)

\* query_history after query(question, ...), whatever the search gave
HistoryAfterQuery(history, question, found) == Append(history, question)

\* query: every outcome.  An outcome is the history the call leaves and what
\* the call returns (Raised when the search raises).
Query(vs, history, question, n_results, difficulty_level) ==
    {[history |-> HistoryAfterQuery(history, question, found),
      returned |-> IF IsRaised(found) THEN Raised
                   ELSE QueryResult(question, found, difficulty_level)] :
        found \in Search(vs, question, n_results)}

NotFound == "I couldn't find information about that topic. Try uploading more study materials!"

ShortSentenceWords == 20
FallbackChars == 200

ExplanationFrom(context, short) ==
    IF short # <<>>
    THEN "Here's a simple explanation:\n\n"
         \o Join([k \in 1..Len(short) |-> Strip(short[k])], ". ") \o "."
    ELSE "Let me explain this in simple terms:\n\n"
         \o Take(context, FallbackChars) \o "..."

\* _create_simplified_explanation
CreateSimplifiedExplanation(question, context) ==
    ExplanationFrom(context,
                    SelectSeq(FirstN(SplitOn(context, "."), 3),
                        LAMBDA sentence :
                            Len(SplitWords(sentence)) < ShortSentenceWords))

\* explain_like_im_five: every value it can return
ExplainLikeImFive(vs, question) ==
    {IF IsRaised(found) THEN Raised
     ELSE IF found.documents = <<>> THEN [response |-> NotFound]
     ELSE [question |-> question,
           response |-> CreateSimplifiedExplanation(question,
                            Join(found.documents, " ")),
           sources |-> found,
           explanation_level |-> "beginner"] :
        found \in Search(vs, question, 2)}

\* str(n) for n >= 0
RECURSIVE IntToStr(_)
IntToStr(n) ==
    IF n < 10 THEN CharAt(Digits, n + 1)
    ELSE IntToStr(n \div 10) \o CharAt(Digits, (n % 10) + 1)

RECURSIVE RemoveLater(_)
\* the distinct elements of seq in the order of their first occurrence
RemoveLater(seq) ==
    IF seq = <<>> THEN <<>>
    ELSE LET init == SubSeq(seq, 1, Len(seq) - 1)
             last == seq[Len(seq)]
         IN  IF last \in Elems(init) THEN RemoveLater(init)
             ELSE Append(RemoveLater(init), last)

Occurrences(seq, x) == Cardinality({k \in 1..Len(seq) : seq[k] = x})

\* the words of all queries that are longer than 3 characters, in order
TopicWords(queries) ==
    IF queries = <<>> THEN <<>>
    ELSE SelectSeq(WordRuns(StrLower(Join(queries, " "))),
                  LAMBDA word : Len(word) > 3)

RECURSIVE SortByCount(_, _)
\* sorted(items, key=count, reverse=True): stable, so topics with the same
\* count stay in the order in which they were first counted
SortByCount(topics, all) ==
    IF topics = <<>> THEN <<>>
    ELSE LET best == CHOOSE k \in 1..Len(topics) :
                        /\ \A j \in 1..Len(topics) :
                              Occurrences(all, topics[j]) <= Occurrences(all, topics[k])
                        /\ \A j \in 1..(k - 1) :
                              Occurrences(all, topics[j]) < Occurrences(all, topics[k])
         IN  <<topics[best]>>
             \o SortByCount(SubSeq(topics, 1, best - 1)
                            \o SubSeq(topics, best + 1, Len(topics)), all)

MinHistory == 5
TopTopics == 5
WeakCount == 3

AskMore == "Upload more documents and ask more questions to identify knowledge gaps!"
NoWeakAreas == "No specific weak areas identified yet"

WeakAreaLine(topic, count) ==
    "You've asked about '" \o topic \o "' " \o IntToStr(count)
    \o " times - consider reviewing this topic"

\* _identify_weak_areas over the top topics
WeakAreas(all, weak) ==
    IF weak = <<>> THEN <<NoWeakAreas>>
    ELSE [k \in 1..Len(weak) |-> WeakAreaLine(weak[k], Occurrences(all, weak[k]))]

\* _extract_common_topics, then the topics asked about WeakCount times or more
GapsOfWords(all) ==
    WeakAreas(all, SelectSeq(FirstN(SortByCount(RemoveLater(all), all), TopTopics),
                             LAMBDA t : Occurrences(all, t) >= WeakCount))

\* mutant: the history is analysed whatever its length
FindKnowledgeGapsAnyLength(history) == GapsOfWords(TopicWords(history))

\* find_knowledge_gaps with _extract_common_topics and _identify_weak_areas
FindKnowledgeGaps(history) ==
    IF Len(history) < MinHistory THEN <<AskMore>> ELSE GapsOfWords(TopicWords(history))

----------------------------------------------------------------------------
(* QuizGenerator: question generation *)

\* a candidate sentence is longer than this many characters
MinSentenceChars == 20

\* a short-answer question needs a sentence of more than this many words
MinAnswerWords == 5

\* [s.strip() for s in content.split('.') if len(s.strip()) > 20]
CandidateSentences(content) ==
    LET pieces == SplitOn(content, ".")
    IN  SelectSeq([k \in 1..Len(pieces) |-> Strip(pieces[k])],
                  LAMBDA t : Len(t) > MinSentenceChars)

Modifications == <<
    <<"is", "is not">>,
    <<"was", "was not">>,
    <<"can", "cannot">>,
    <<"will", "will not">>,
    <<"should", "should not">> >>

\* index of the first pair of Modifications whose phrase occurs in the
\* lower-cased sentence, 0 when there is none
FirstModification(sentence) ==
    LET hits == {m \in 1..Len(Modifications) :
                    Find(StrLower(sentence), Modifications[m][1]) # 0}
    IN  IF hits = {} THEN 0 ELSE CHOOSE m \in hits : \A k \in hits : m <= k

\* _modify_sentence_for_false: the substitution is made in sentence.lower()
ModifySentenceForFalse(sentence) ==
    LET m == FirstModification(sentence)
    IN  IF m = 0 THEN sentence
        ELSE ReplaceFirst(StrLower(sentence),
                          Modifications[m][1], Modifications[m][2])

TrueFalsePrefix == "True or False: "

\* mutant: every item is labelled True and left unmodified
TrueFalseItemAllTrue(sentence, i) ==
    [question |-> TrueFalsePrefix \o sentence,
     correct_answer |-> "True",
     type |-> "true_false"]

\* the question built for sentences[i] (i counted from 0)
TrueFalseItem(sentence, i) ==
    LET is_true == i % 2 = 0
    IN  [question |-> TrueFalsePrefix \o
                      (IF is_true THEN sentence
                       ELSE ModifySentenceForFalse(sentence)),
         correct_answer |-> IF is_true THEN "True" ELSE "False",
         type |-> "true_false"]

\* _generate_true_false
GenerateTrueFalse(content, num_questions) ==
    LET sentences == CandidateSentences(content)
    IN  [k \in 1..Min(num_questions, Len(sentences)) |->
            TrueFalseItem(sentences[k], k - 1)]

\* start positions of the matches of \b[A-Z][a-z]+\b in sentence
CapitalizedStarts(sentence) ==
    {i \in 1..Len(sentence) :
        /\ CharAt(sentence, i) \in UpperChars
        /\ (i = 1 \/ CharAt(sentence, i - 1) \notin WordChars)
        /\ \E e \in (i + 1)..Len(sentence) :
              /\ \A k \in (i + 1)..e : CharAt(sentence, k) \in LowerChars
              /\ (e = Len(sentence) \/ CharAt(sentence, e + 1) \notin WordChars)}

\* the match of \b[A-Z][a-z]+\b that starts at i
CapitalizedAt(sentence, i) ==
    LET e == CHOOSE e \in (i + 1)..Len(sentence) :
                /\ \A k \in (i + 1)..e : CharAt(sentence, k) \in LowerChars
                /\ (e = Len(sentence) \/ CharAt(sentence, e + 1) \notin WordChars)
    IN  SubSeq(sentence, i, e)

\* the words random.choice(re.findall(...)) can return
CapitalizedWords(sentence) ==
    {CapitalizedAt(sentence, i) : i \in CapitalizedStarts(sentence)}

DummyOptions == <<"Option A", "Option B", "Option C">>

\* mutant: the first letter is always recorded as the answer
IndexOfFirst(options, x) == 0

\* first 0-based position of x in options (list.index)
IndexOf(options, x) ==
    (CHOOSE k \in 1..Len(options) :
        options[k] = x /\ \A j \in 1..(k - 1) : options[j] # x) - 1

\* the multiple-choice questions one sentence can give: one per choice of key
\* term and per order of the shuffled options; options[k] is keyed Letter(k-1)
MultipleChoiceItems(sentence) ==
    UNION {
      {[question |-> "Fill in the blank: " \o ReplaceAll(sentence, key_term, "____"),
        options |-> options,
        correct_answer |-> Letter(IndexOf(options, key_term)),
        type |-> "multiple_choice"] :
          options \in Shuffles(<<key_term>> \o DummyOptions)} :
      key_term \in CapitalizedWords(sentence)}

RECURSIVE MultipleChoiceLists(_, _)
\* the lists the loop can have built after its first k sentences; a sentence
\* without a capitalized word is skipped
MultipleChoiceLists(sentences, k) ==
    IF k <= 0 THEN {<<>>}
    ELSE LET before == MultipleChoiceLists(sentences, k - 1)
             items == MultipleChoiceItems(sentences[k])
         IN  IF items = {} THEN before
             ELSE {Append(qs, q) : qs \in before, q \in items}

\* _generate_multiple_choice: every list of questions it can return
GenerateMultipleChoice(content, num_questions) ==
    LET sentences == CandidateSentences(content)
    IN  MultipleChoiceLists(sentences, Min(num_questions, Len(sentences)))

QuestionStarters == <<"What is", "How does", "Why is", "When did", "Where is",
                      "Who was", "Which", "Explain", "Describe", "Define">>

\* the short-answer questions one sentence can give: one per starter, none
\* when the sentence has 5 words or fewer
ShortAnswerItems(sentence) ==
    LET words == SplitWords(sentence)
    IN  IF Len(words) > MinAnswerWords
        THEN {[question |-> QuestionStarters[st] \o " "
                            \o StrLower(Join(SubSeq(words, 1, 3), " ")) \o "?",
               sample_answer |-> sentence,
               type |-> "short_answer"] : st \in 1..Len(QuestionStarters)}
        ELSE {}

RECURSIVE ShortAnswerLists(_, _)
ShortAnswerLists(sentences, k) ==
    IF k <= 0 THEN {<<>>}
    ELSE LET before == ShortAnswerLists(sentences, k - 1)
             items == ShortAnswerItems(sentences[k])
         IN  IF items = {} THEN before
             ELSE {Append(qs, q) : qs \in before, q \in items}

\* _generate_short_answer: every list of questions it can return
GenerateShortAnswer(content, num_questions) ==
    LET sentences == CandidateSentences(content)
    IN  ShortAnswerLists(sentences, Min(num_questions, Len(sentences)))

\* mutant: the short-answer share is a third as well
GenerateMixedQuizThirds(content, num_questions) ==
    UNION {Shuffles(mc \o GenerateTrueFalse(content, num_questions \div 3) \o sa) :
              mc \in GenerateMultipleChoice(content, num_questions \div 3),
              sa \in GenerateShortAnswer(content, num_questions \div 3)}

\* _generate_mixed_quiz: every list of questions it can return
GenerateMixedQuiz(content, num_questions) ==
    LET mc_count == num_questions \div 3
        tf_count == num_questions \div 3
        sa_count == num_questions - mc_count - tf_count
    IN  UNION {Shuffles(mc \o GenerateTrueFalse(content, tf_count) \o sa) :
                  mc \in GenerateMultipleChoice(content, mc_count),
                  sa \in GenerateShortAnswer(content, sa_count)}

NoContentError == [error |-> "No content found for this topic"]

\* the questions generate_quiz can build from the retrieved content
GenerateQuestions(content, num_questions, quiz_type) ==
    CASE quiz_type = "multiple_choice" ->
            GenerateMultipleChoice(content, num_questions)
      [] quiz_type = "true_false" ->
            {GenerateTrueFalse(content, num_questions)}
      [] quiz_type = "short_answer" ->
            GenerateShortAnswer(content, num_questions)
      [] OTHER -> GenerateMixedQuiz(content, num_questions)

QuizSearchResults == 10

\* mutant: the quiz reports the number of questions asked for
QuizFromAsked(documents, topic, num_questions, quiz_type) ==
    IF documents = <<>>
    THEN {NoContentError}
    ELSE {[topic |-> topic,
           num_questions |-> num_questions,
           questions |-> questions,
           quiz_type |-> quiz_type] :
              questions \in GenerateQuestions(Join(documents, " "),
                                              num_questions, quiz_type)}

\* generate_quiz once the search has returned documents: every value it can
\* return
QuizFrom(documents, topic, num_questions, quiz_type) ==
    IF documents = <<>>
    THEN {NoContentError}
    ELSE {[topic |-> topic,
           num_questions |-> Len(questions),
           questions |-> questions,
           quiz_type |-> quiz_type] :
              questions \in GenerateQuestions(Join(documents, " "),
                                              num_questions, quiz_type)}

\* generate_quiz: every outcome, as the documents the search found and the
\* value returned (Raised when the search raises)
GenerateQuiz(vs, topic, num_questions, quiz_type) ==
    UNION {
        IF IsRaised(found) THEN {[found |-> <<>>, returned |-> Raised]}
        ELSE {[found |-> found.documents, returned |-> quiz] :
                 quiz \in QuizFrom(found.documents, topic, num_questions, quiz_type)} :
        found \in Search(vs, topic, QuizSearchResults)}

----------------------------------------------------------------------------
(* QuizGenerator: evaluation.  user_answers maps question indexes (the keys  *)
(* str(i)) to answers.                                                       *)

\* user_answers.get(str(i), "")
AnswerFor(user_answers, i) ==
    IF i \in DOMAIN user_answers THEN user_answers[i] ELSE ""

\* mutant: half of the key words are required
EvaluateShortAnswerHalf(user_answer, sample_answer) ==
    LET key_words == {w \in Elems(SplitWords(StrLower(sample_answer))) : Len(w) > 3}
    IN  2 * Cardinality(Elems(SplitWords(StrLower(user_answer))) \cap key_words)
            >= Cardinality(key_words)

\* _evaluate_short_answer: at least 30% of the reference's distinct words of
\* more than 3 characters occur among the answer's words
EvaluateShortAnswer(user_answer, sample_answer) ==
    LET user_words == Elems(SplitWords(StrLower(user_answer)))
        sample_words == Elems(SplitWords(StrLower(sample_answer)))
        key_words == {w \in sample_words : Len(w) > 3}
        matching_words == user_words \cap key_words
    IN  10 * Cardinality(matching_words) >= 3 * Cardinality(key_words)

\* mutant: a grade is reached only above its threshold
CalculateGradeAbove(score, total) ==
    LET p == IF total > 0 THEN score * 100 ELSE 0
        t == IF total > 0 THEN total ELSE 1
    IN  IF p > 90 * t THEN "A"
        ELSE IF p > 80 * t THEN "B"
        ELSE IF p > 70 * t THEN "C"
        ELSE IF p > 60 * t THEN "D"
        ELSE "F"

\* _calculate_grade of the percentage 100 * score / total (0 when total = 0)
CalculateGrade(score, total) ==
    LET p == IF total > 0 THEN score * 100 ELSE 0
        t == IF total > 0 THEN total ELSE 1
    IN  IF p >= 90 * t THEN "A"
        ELSE IF p >= 80 * t THEN "B"
        ELSE IF p >= 70 * t THEN "C"
        ELSE IF p >= 60 * t THEN "D"
        ELSE "F"

\* mutant: labels are compared as written
IsCorrectExact(question, user_answer) ==
    IF question.type \in {"multiple_choice", "true_false"}
    THEN user_answer = question.correct_answer
    ELSE EvaluateShortAnswer(user_answer, question.sample_answer)

IsCorrect(question, user_answer) ==
    IF question.type \in {"multiple_choice", "true_false"}
    THEN StrUpper(user_answer) = StrUpper(question.correct_answer)
    ELSE EvaluateShortAnswer(user_answer, question.sample_answer)

\* mutant: every question is scored, whether answered correctly or not
EvaluateQuizScoringAll(quiz, user_answers) ==
    [score |-> Len(quiz.questions),
     total_questions |-> Len(quiz.questions),
     percentage |-> IF Len(quiz.questions) > 0
                    THEN [num |-> 100, den |-> 1]
                    ELSE [num |-> 0, den |-> 1],
     grade |-> CalculateGrade(Len(quiz.questions), Len(quiz.questions)),
     results |-> [k \in 1..Len(quiz.questions) |->
        [question |-> quiz.questions[k].question,
         user_answer |-> AnswerFor(user_answers, k - 1),
         correct_answer |-> "",
         is_correct |-> IsCorrect(quiz.questions[k],
                                  AnswerFor(user_answers, k - 1))]]]

\* evaluate_quiz; the percentage is the rational 100 * score / total_questions
EvaluateQuiz(quiz, user_answers) ==
    LET total == Len(quiz.questions)
        results == [k \in 1..total |->
            LET q == quiz.questions[k]
                a == AnswerFor(user_answers, k - 1)
            IN  [question |-> q.question,
                 user_answer |-> a,
                 correct_answer |-> IF "correct_answer" \in DOMAIN q
                                    THEN q.correct_answer
                                    ELSE q.sample_answer,
                 is_correct |-> IsCorrect(q, a)]]
        score == Cardinality({k \in 1..total : results[k].is_correct})
    IN  [score |-> score,
         total_questions |-> total,
         percentage |-> IF total > 0
                        THEN [num |-> 100 * score, den |-> total]
                        ELSE [num |-> 0, den |-> 1],
         grade |-> CalculateGrade(score, total),
         results |-> results]

----------------------------------------------------------------------------
(* DocumentProcessor.process_document *)

\* Path(name).suffix.lower()
Suffix(name) ==
    LET dots == {i \in 2..Len(name) : CharAt(name, i) = "."}
    IN  IF dots = {} THEN ""
        ELSE StrLower(Drop(name, (CHOOSE i \in dots : \A k \in dots : k <= i) - 1))

RECURSIVE CollapseSpace(_)
\* re.sub(r'\s+', ' ', text)
CollapseSpace(text) ==
    IF text = "" THEN ""
    ELSE IF Head(text) \in SpaceChars THEN " " \o CollapseSpace(LStrip(text))
    ELSE Head(text) \o CollapseSpace(Tail(text))

RECURSIVE KeepAllowed(_)
\* re.sub(r'[^\w\s\.\,\!\?\;\:\-\(\)]', '', text)
KeepAllowed(text) ==
    IF text = "" THEN ""
    ELSE (IF Head(text) \in WordChars \/ Head(text) \in SpaceChars
             \/ Head(text) \in {".", ",", "!", "?", ";", ":", "-", "(", ")"}
          THEN Head(text) ELSE "")
         \o KeepAllowed(Tail(text))

\* _clean_text
CleanText(text) == Strip(KeepAllowed(CollapseSpace(text)))

----------------------------------------------------------------------------
(* The application: app.py.  One action is one script run of a page, or the  *)
(* sidebar's Clear All Data handler that ends a run.                         *)

\* Config.CHUNK_SIZE, Config.CHUNK_OVERLAP
CHUNK_SIZE == 1000
CHUNK_OVERLAP == 200

None == [none |-> TRUE]
IsNone(v) == "none" \in DOMAIN v

NoAnswers == [i \in {} |-> ""]

\* files the user can upload: a one-sentence note and an empty file.  The
\* question generators are explored on richer passages under SpecTrueFalse.
Files ==
    {[name |-> "photo.txt", content |-> "photosynthesis  occurs in chloroplasts.\n"],
     [name |-> "empty.txt", content |-> ""]}

\* an upload is a file and whether its text can be extracted (extraction
\* raises when it cannot, whatever the file holds)
Uploads ==
    {u \in [file : Files, readable : BOOLEAN] : u.readable \/ u.file.content # ""}

Questions == {"what is photosynthesis"}
Topics == {"photosynthesis"}
SliderChoices == {3, 5}
QuizTypes == {"mixed", "multiple_choice", "true_false", "short_answer"}
Difficulties == {"auto", "beginner", "intermediate", "advanced"}
TextAnswers == {"", "in chloroplasts"}

\* process_document for one uploaded file: the chunks, or Raised
ProcessDocument(upload, size, overlap) ==
    LET file_ext == Suffix(upload.file.name)
        cleaned_content == CleanText(upload.file.content)
        made == CreateChunks(SplitWords(cleaned_content), size, overlap)
    IN  IF file_ext \notin {".pdf", ".docx", ".txt"} \/ ~upload.readable
           \/ made.status = "error"
        THEN Raised
        ELSE [file_name |-> upload.file.name,
              content |-> cleaned_content,
              chunks |-> [k \in 1..Len(made.chunks) |-> Join(made.chunks[k], " ")],
              metadata |-> [file_type |-> file_ext,
                            chunk_count |-> Len(made.chunks),
                            word_count |-> Len(SplitWords(cleaned_content))]]

\* the body of the upload loop for one file: the store it leaves and the
\* message it shows
UploadOne(st, upload, size, overlap) ==
    LET doc_data == ProcessDocument(upload, size, overlap)
        metadatas == [j \in 1..Len(doc_data.chunks) |->
                        [file_name |-> doc_data.file_name,
                         chunk_index |-> j - 1,
                         file_type |-> doc_data.metadata.file_type,
                         word_count |-> Len(SplitWords(doc_data.chunks[j]))]]
        added == AddDocuments(st, doc_data.chunks, metadatas)
    IN  IF IsRaised(doc_data) THEN [store |-> st, report |-> "error"]
        ELSE IF IsRaised(added) THEN [store |-> st, report |-> "error"]
        ELSE [store |-> added, report |-> "success"]

RECURSIVE UploadLoop(_, _, _, _, _)
UploadLoop(st, reports, uploads, size, overlap) ==
    IF uploads = <<>> THEN [store |-> st, reports |-> reports]
    ELSE LET one == UploadOne(st, Head(uploads), size, overlap)
         IN  UploadLoop(one.store, Append(reports, one.report),
                        Tail(uploads), size, overlap)

RECURSIVE UploadLoopAborting(_, _, _, _, _)
UploadLoopAborting(st, reports, uploads, size, overlap) ==
    IF uploads = <<>> THEN [store |-> st, reports |-> reports]
    ELSE LET one == UploadOne(st, Head(uploads), size, overlap)
         IN  IF one.report = "error"
             THEN [store |-> st, reports |-> Append(reports, one.report)]
             ELSE UploadLoopAborting(one.store, Append(reports, one.report),
                                     Tail(uploads), size, overlap)

\* mutant: the first failing file ends the batch
UploadDocumentsAborting(st, uploads, size, overlap) ==
    UploadLoopAborting(st, <<>>, uploads, size, overlap)

\* the upload loop over the whole batch, each file in its own try/except
UploadDocuments(st, uploads, size, overlap) ==
    UploadLoop(st, <<>>, uploads, size, overlap)

\* the pages' entry check: not documents_uploaded and count == 0
\* "stop", "raised" (count raised) or "go"
EntryCheck(uploaded, st) ==
    IF uploaded THEN "go"
    ELSE IF IsRaised(GetCollectionCount(st)) THEN "raised"
    ELSE IF GetCollectionCount(st).count = 0 THEN "stop"
    ELSE "go"

Batches == UNION {[1..n -> Uploads] : n \in 0..MaxBatch}

\* Upload Documents page
UploadPage ==
    \E batch \in Batches :
        LET done == UploadDocuments(store, batch, chunk_size, chunk_overlap)
            counted == GetCollectionCount(done.store)
        IN  /\ Len(done.store.entries) <= MaxStored
            /\ store' = done.store
            /\ documents_uploaded' = (IF batch # <<>> THEN TRUE ELSE documents_uploaded)
            /\ lastRun' = [page |-> "upload",
                           raised |-> IsRaised(counted),
                           input |-> batch,
                           shown |-> done.reports]
            /\ UNCHANGED <<query_history, quiz_data, quiz_answers, queryLog>>
            /\ UNCHANGED <<chunkVars, quizVars, callVars>>

\* the query calls of one run of the Ask Questions page, in order: the
\* pressed button's call, then the main query
AskCalls(question, difficulty, button) ==
    (IF button = "concepts"
        THEN <<[question |-> question, n_results |-> 5, level |-> NoLevel]>>
     ELSE IF button = "related"
        THEN <<[question |-> "topics related to " \o question, n_results |-> 3,
                level |-> NoLevel]>>
     ELSE <<>>)
    \o <<[question |-> question, n_results |-> 5,
          level |-> IF difficulty = "auto" THEN NoLevel ELSE difficulty]>>

RECURSIVE RunCalls(_, _, _, _)
\* every way the calls can go: the history left, and per call made what it
\* returned; a call that raises ends the run
RunCalls(st, history, calls, made) ==
    IF calls = <<>> THEN {[history |-> history, made |-> made]}
    ELSE UNION {
        IF IsRaised(o.returned)
        THEN {[history |-> o.history, made |-> Append(made, o.returned)]}
        ELSE RunCalls(st, o.history, Tail(calls), Append(made, o.returned)) :
        o \in Query(st, history, Head(calls).question,
                    Head(calls).n_results, Head(calls).level)}

\* the run's outcome once its query calls have gone as r: the calls made are
\* the first Len(r.made) of calls, and the last of them may have raised
AfterCalls(shown, calls, r) ==
    [history |-> r.history,
     asked |-> [k \in 1..Len(r.made) |-> calls[k].question],
     raised |-> IsRaised(r.made[Len(r.made)]),
     shown |-> shown \o r.made]

\* every way one run of the Ask Questions page can go, a question typed: the
\* history it leaves, the questions it handed to query, whether it ended in
\* an exception, and the results it had to show
AskRuns(st, history, uploaded, question, difficulty, button) ==
    IF EntryCheck(uploaded, st) # "go"
    THEN {[history |-> history, asked |-> <<>>,
           raised |-> EntryCheck(uploaded, st) = "raised", shown |-> <<>>]}
    ELSE IF button = "explain"
    THEN UNION {
            IF IsRaised(e)
            THEN {[history |-> history, asked |-> <<>>, raised |-> TRUE,
                   shown |-> <<>>]}
            ELSE {AfterCalls(<<e>>, AskCalls(question, difficulty, button), r) :
                     r \in RunCalls(st, history,
                                    AskCalls(question, difficulty, button), <<>>)} :
            e \in ExplainLikeImFive(st, question)}
    ELSE {AfterCalls(<<>>, AskCalls(question, difficulty, button), r) :
             r \in RunCalls(st, history,
                            AskCalls(question, difficulty, button), <<>>)}

\* Ask Questions page with a question typed
AskPage ==
    \E question \in Questions, difficulty \in Difficulties,
       button \in {"none", "explain", "concepts", "related"} :
        \E run \in AskRuns(store, query_history, documents_uploaded,
                           question, difficulty, button) :
            /\ Len(query_history) + Len(AskCalls(question, difficulty, button))
                  <= MaxHistory
            /\ query_history' = run.history
            /\ queryLog' = queryLog \o run.asked
            /\ lastRun' = [page |-> "ask", raised |-> run.raised,
                           input |-> <<question, difficulty, button>>,
                           asked |-> run.asked,
                           shown |-> run.shown]
            /\ UNCHANGED <<store, documents_uploaded, quiz_data, quiz_answers>>
            /\ UNCHANGED <<chunkVars, quizVars, callVars>>

\* Knowledge Gaps page, Analyze pressed
KnowledgeGapsPage ==
    /\ lastRun' = [page |-> "gaps", raised |-> FALSE, input |-> <<>>,
                   shown |-> FindKnowledgeGaps(query_history)]
    /\ UNCHANGED <<store, query_history, documents_uploaded, quiz_data,
                   quiz_answers, queryLog>>
    /\ UNCHANGED <<chunkVars, quizVars, callVars>>

\* Study Stats page
StatsPage ==
    LET counted == GetCollectionCount(store)
    IN  /\ lastRun' = [page |-> "stats", raised |-> IsRaised(counted),
                       input |-> <<>>,
                       shown |-> IF IsRaised(counted) THEN <<>>
                                 ELSE <<counted.count, Len(query_history)>>]
        /\ UNCHANGED <<store, query_history, documents_uploaded, quiz_data,
                       quiz_answers, queryLog>>
        /\ UNCHANGED <<chunkVars, quizVars, callVars>>

\* mutant: the session forgets the questions asked as well
HistoryAfterClearForgetting(history) == <<>>

\* query_history after the Clear All Data handler
HistoryAfterClear(history) == history

\* the sidebar's Clear All Data handler, the confirmation ticked
ClearAllData ==
    LET dropped == DeleteCollection(store)
    IN  /\ lastRun' = [page |-> "clear", raised |-> IsRaised(dropped),
                       input |-> <<>>, shown |-> <<>>]
        /\ IF IsRaised(dropped)
           THEN UNCHANGED <<store, query_history, documents_uploaded, quiz_data,
                            quiz_answers>>
           ELSE /\ store' = dropped
                /\ documents_uploaded' = FALSE
                /\ quiz_data' = None
                /\ quiz_answers' = NoAnswers
                /\ query_history' = HistoryAfterClear(query_history)
        /\ UNCHANGED queryLog
        /\ UNCHANGED <<chunkVars, quizVars, callVars>>

\* mutant: whatever generate_quiz returned becomes the session's quiz
StoreQuizAlways(data, answers, generated) ==
    [quiz_data |-> generated, quiz_answers |-> NoAnswers]

\* the front end after generate_quiz returned: an error outcome is shown and
\* the session keeps its quiz and answers
StoreQuiz(data, answers, generated) ==
    IF "error" \in DOMAIN generated
    THEN [quiz_data |-> data, quiz_answers |-> answers]
    ELSE [quiz_data |-> generated, quiz_answers |-> NoAnswers]

\* the values the widget of one question can hold when the page is drawn
WidgetChoices(question) ==
    IF question.type = "multiple_choice"
    THEN {Letter(IndexOf(question.options, o)) : o \in Elems(question.options)}
    ELSE IF question.type = "true_false"
    THEN {"True", "False"}
    ELSE TextAnswers

RECURSIVE WidgetSets(_, _)
\* the values the widgets of the first k questions can hold
WidgetSets(questions, k) ==
    IF k = 0 THEN {<<>>}
    ELSE {Append(w, v) : w \in WidgetSets(questions, k - 1),
                         v \in WidgetChoices(questions[k])}

\* the display loop: every truthy widget value is stored under str(i)
Capture(answers, widgets) ==
    [i \in DOMAIN answers \cup {k - 1 : k \in {j \in 1..Len(widgets) : widgets[j] # ""}} |->
        IF i + 1 \in 1..Len(widgets) /\ widgets[i + 1] # ""
        THEN widgets[i + 1] ELSE answers[i]]

\* Submit Quiz: a warning while answers are missing, else the evaluation
Submit(quiz, answers) ==
    IF Cardinality(DOMAIN answers) < Len(quiz.questions)
    THEN [warning |-> "Please answer all questions before submitting!"]
    ELSE EvaluateQuiz(quiz, answers)

\* the rest of a Generate Quiz page run once generation is over: a stored
\* quiz is drawn (quiz['questions'] of a stored value without questions
\* raises KeyError), the widgets' values are captured, a pressed Submit is
\* handled
QuizDisplay(button, input, session, outcome) ==
    IF IsNone(session.quiz_data)
    THEN /\ quiz_data' = session.quiz_data
         /\ quiz_answers' = session.quiz_answers
         /\ lastRun' = [page |-> "quiz", raised |-> FALSE, input |-> input,
                        shown |-> <<outcome>>]
    ELSE IF "questions" \notin DOMAIN session.quiz_data
    THEN /\ quiz_data' = session.quiz_data
         /\ quiz_answers' = session.quiz_answers
         /\ lastRun' = [page |-> "quiz", raised |-> TRUE, input |-> input,
                        shown |-> <<outcome>>]
    ELSE \E widgets \in WidgetSets(session.quiz_data.questions,
                                   Len(session.quiz_data.questions)) :
         /\ quiz_data' = session.quiz_data
         /\ quiz_answers' = Capture(session.quiz_answers, widgets)
         /\ lastRun' = [page |-> "quiz", raised |-> FALSE, input |-> input,
                        shown |-> IF button = "submit"
                                  THEN <<outcome,
                                         Submit(session.quiz_data,
                                                Capture(session.quiz_answers, widgets))>>
                                  ELSE <<outcome>>]

\* Generate Quiz page
QuizPage ==
    \E button \in {"none", "generate", "submit"} :
        LET check == EntryCheck(documents_uploaded, store)
        IN  /\ IF check # "go"
               THEN /\ lastRun' = [page |-> "quiz", raised |-> check = "raised",
                                   input |-> <<button>>, shown |-> <<>>]
                    /\ UNCHANGED <<quiz_data, quiz_answers>>
               ELSE IF button = "generate"
               THEN \E topic \in Topics, n \in SliderChoices, type \in QuizTypes :
                    \E g \in GenerateQuiz(store, topic, n, type) :
                        IF IsRaised(g.returned)
                        THEN /\ lastRun' = [page |-> "quiz", raised |-> TRUE,
                                    input |-> <<button, topic, n, type>>,
                                    shown |-> <<>>]
                             /\ UNCHANGED <<quiz_data, quiz_answers>>
                        ELSE QuizDisplay(button, <<button, topic, n, type>>,
                                 StoreQuiz(quiz_data, quiz_answers, g.returned),
                                 g)
               ELSE QuizDisplay(button, <<button>>,
                        [quiz_data |-> quiz_data, quiz_answers |-> quiz_answers],
                        None)
            /\ UNCHANGED <<store, query_history, documents_uploaded, queryLog>>
            /\ UNCHANGED <<chunkVars, quizVars, callVars>>

----------------------------------------------------------------------------
(* Specifications *)

NoCall == [status |-> "none", chunks |-> <<>>]

IdleChunker == /\ callText = <<>>
               /\ callResult = NoCall

IdleQuiz == /\ quizInput = None
            /\ quizOutput = None

IdleCalls == /\ opInput = None
             /\ opOutput = None

IdleApp == /\ store = [live |-> TRUE, entries |-> <<>>]
           /\ query_history = <<>>
           /\ documents_uploaded = FALSE
           /\ quiz_data = None
           /\ quiz_answers = NoAnswers
           /\ lastRun = [page |-> "start", raised |-> FALSE, input |-> <<>>,
                         shown |-> <<>>]
           /\ queryLog = <<>>

\* the application after initialize_components and the session state defaults
Init ==
    /\ chunk_size = CHUNK_SIZE
    /\ chunk_overlap = CHUNK_OVERLAP
    /\ IdleApp
    /\ IdleChunker
    /\ IdleQuiz
    /\ IdleCalls

Next ==
    \/ UploadPage
    \/ AskPage
    \/ KnowledgeGapsPage
    \/ QuizPage
    \/ StatsPage
    \/ ClearAllData

Spec == Init /\ [][Next]_vars

(* The chunker as a function of (text, chunk_size, chunk_overlap) *)

InitChunk ==
    /\ chunk_size \in 1..MaxSize
    /\ chunk_overlap \in 0..MaxOverlap
    /\ IdleChunker
    /\ IdleApp
    /\ IdleQuiz
    /\ IdleCalls

CreateChunksCall ==
    \E w \in 0..MaxWords :
        /\ callText' = [k \in 1..w |-> k]
        /\ callResult' = CreateChunks(callText', chunk_size, chunk_overlap)
        /\ UNCHANGED <<chunk_size, chunk_overlap>>
        /\ UNCHANGED appVars
        /\ UNCHANGED <<quizVars, callVars>>

SpecChunk == InitChunk /\ [][CreateChunksCall]_vars

(* generate_quiz(topic, n, "true_false") as a function of the index and n *)

Passages ==
    {"Photosynthesis occurs in chloroplasts.",
     "The cell is small and round. Plants can make food from light.",
     "Roots absorb water from deep soil.",
     "This Was Tiny. Mitochondria should release Energy slowly.",
     "Leaves are green."}

PassageEntry(text) == [document |-> text, metadata |-> [file_name |-> "notes.txt"]]

PassageLists == UNION {[1..n -> Passages] : n \in 0..MaxPassages}

InitTrueFalse ==
    /\ quizInput \in
          {[entries |-> [k \in 1..Len(ps) |-> PassageEntry(ps[k])],
            topic |-> "photosynthesis",
            num_questions |-> n,
            quiz_type |-> "true_false"] :
              ps \in PassageLists, n \in 0..MaxQuestions}
    /\ quizOutput = None
    /\ chunk_size = CHUNK_SIZE
    /\ chunk_overlap = CHUNK_OVERLAP
    /\ IdleApp
    /\ IdleChunker
    /\ IdleCalls

GenerateQuizCall ==
    /\ quizOutput' \in GenerateQuiz([live |-> TRUE, entries |-> quizInput.entries],
                                    quizInput.topic, quizInput.num_questions,
                                    quizInput.quiz_type)
    /\ UNCHANGED quizInput
    /\ UNCHANGED <<chunk_size, chunk_overlap, callText, callResult>>
    /\ UNCHANGED <<appVars, callVars>>

SpecTrueFalse == InitTrueFalse /\ [][GenerateQuizCall]_vars

(* direct calls of the library operations, one call in a behaviour *)

MaxQuiz == 3

\* indexed passages: none, one without a sentence longer than 20 characters,
\* sentences of four, five and six words, with and without capitalized words
QuizStores ==
    {<<>>,
     <<"Leaves are green.">>,
     <<"Photosynthesis occurs in chloroplasts.">>,
     <<"This Was Tiny. Mitochondria should release Energy slowly.">>,
     <<"plants use the light of the sun to grow.">>,
     <<"Roots absorb water from deep soil.">>,
     <<"The cell is small and round. Plants can make food from light. Roots absorb water from deep soil.">>,
     <<"Photosynthesis occurs in chloroplasts.",
       "plants use the light of the sun to grow.">>}

\* QuizGenerator.generate_quiz(topic, num_questions, quiz_type)
GenerateQuizOp ==
    /\ opInput = None
    /\ \E ps \in QuizStores, n \in 0..MaxQuiz, t \in QuizTypes :
          /\ opInput' = [op |-> "generate_quiz",
                         entries |-> [k \in 1..Len(ps) |-> PassageEntry(ps[k])],
                         topic |-> "photosynthesis",
                         num_questions |-> n,
                         quiz_type |-> t]
          /\ opOutput' \in GenerateQuiz([live |-> TRUE, entries |-> opInput'.entries],
                                        "photosynthesis", n, t)
    /\ UNCHANGED <<chunkVars, quizVars, appVars>>

SpecQuiz == Init /\ [][GenerateQuizOp]_vars

MaxEval == 2

\* QuizGenerator.evaluate_quiz(quiz, user_answers) on quizzes of questions as
\* the generators build them; user_answers maps some of the indices 0..n-1
EvaluateQuizOp ==
    LET questions ==
            {[question |-> "Fill in the blank: ____ absorb water from deep soil",
              options |-> <<"Option A", "Roots", "Option B", "Option C">>,
              correct_answer |-> "B", type |-> "multiple_choice"],
             [question |-> "True or False: Roots absorb water from deep soil",
              correct_answer |-> "True", type |-> "true_false"],
             [question |-> "True or False: plants cannot make food from light",
              correct_answer |-> "False", type |-> "true_false"],
             [question |-> "Explain roots absorb water?",
              sample_answer |-> "Roots absorb water from deep soil",
              type |-> "short_answer"],
             [question |-> "What is the sun is?",
              sample_answer |-> "the sun is hot and dry all day now",
              type |-> "short_answer"]}
        answers == {"", "b", "B", "true", "False", "roots", "Roots and WATER"}
    IN  /\ opInput = None
        /\ \E n \in 0..MaxEval :
              \E qs \in [1..n -> questions] :
                  \E user_answers \in UNION {[d -> answers] : d \in SUBSET (0..(n - 1))} :
                      /\ opInput' = [op |-> "evaluate_quiz",
                                     quiz |-> [questions |-> qs],
                                     user_answers |-> user_answers]
                      /\ opOutput' = EvaluateQuiz(opInput'.quiz, user_answers)
        /\ UNCHANGED <<chunkVars, quizVars, appVars>>

MaxPercent == 100

\* QuizGenerator._calculate_grade(percentage), percentage a multiple of 0.01
CalculateGradeOp ==
    /\ opInput = None
    /\ \E hundredths \in 0..(100 * MaxPercent) :
          /\ opInput' = [op |-> "_calculate_grade",
                         percentage |-> [num |-> hundredths, den |-> 100]]
          /\ opOutput' = CalculateGrade(hundredths, 100 * 100)
    /\ UNCHANGED <<chunkVars, quizVars, appVars>>

MaxAsked == 5

\* RAGEngine.find_knowledge_gaps() on an engine whose query_history is
\* history
FindKnowledgeGapsOp ==
    /\ opInput = None
    /\ \E n \in 0..MaxAsked :
          \E history \in [1..n -> {"what is the cell",
                                   "cell root leaf stem seed soil",
                                   "the sun and the sea and the sky",
                                   "Explain soil!"}] :
              /\ opInput' = [op |-> "find_knowledge_gaps", history |-> history]
              /\ opOutput' = FindKnowledgeGaps(history)
    /\ UNCHANGED <<chunkVars, quizVars, appVars>>

MaxChunks == 2

\* RAGEngine.query(question, n_results, difficulty_level) on a new engine over
\* a collection of chunks scoring 0.009, 0.317 and 0.5175
QueryOp ==
    /\ opInput = None
    /\ \E n \in 0..MaxChunks, n_results \in 1..2,
          difficulty_level \in {NoLevel} \cup DOMAIN DifficultyLevels :
          \E entries \in [1..n -> {[document |-> "The cat sat.",
                                    metadata |-> [file_name |-> "easy.txt"]],
                                   [document |-> "Photosynthesis.",
                                    metadata |-> [file_name |-> "bio.txt"]],
                                   [document |-> "Hypothesis methodology.",
                                    metadata |-> [file_name |-> "method.txt"]]}] :
              /\ opInput' = [op |-> "query",
                             entries |-> entries,
                             question |-> "what is photosynthesis",
                             n_results |-> n_results,
                             difficulty_level |-> difficulty_level]
              /\ opOutput' \in Query([live |-> TRUE, entries |-> entries], <<>>,
                                     "what is photosynthesis", n_results,
                                     difficulty_level)
    /\ UNCHANGED <<chunkVars, quizVars, appVars>>

\* RAGEngine.explain_like_im_five(question) over a collection of passages of
\* short sentences and of sentences of 20 words
ExplainOp ==
    /\ opInput = None
    /\ \E n \in 0..MaxChunks :
          \E passages \in [1..n -> {
                "Plants make food. Roots absorb water. Leaves are green.",
                "we see that the sun is hot and the sea is wet and the sky is far and so on.",
                "we see that the sun is hot and the sea is wet and the sky is far and so on. we see that the sun is hot and the sea is wet and the sky is far and so on. we see that the sun is hot and the sea is wet and the sky is far and so on."}] :
              /\ opInput' = [op |-> "explain_like_im_five",
                             entries |-> [k \in 1..n |-> PassageEntry(passages[k])],
                             question |-> "what is photosynthesis"]
              /\ opOutput' \in ExplainLikeImFive(
                                  [live |-> TRUE, entries |-> opInput'.entries],
                                  "what is photosynthesis")
    /\ UNCHANGED <<chunkVars, quizVars, appVars>>

\* DifficultyAssessor.categorize_difficulty(score), score a multiple of 0.01
CategorizeDifficultyOp ==
    /\ opInput = None
    /\ \E hundredths \in 0..MaxPercent :
          /\ opInput' = [op |-> "categorize_difficulty",
                         score |-> [num |-> hundredths, den |-> 100]]
          /\ opOutput' = CategorizeDifficulty(opInput'.score)
    /\ UNCHANGED <<chunkVars, quizVars, appVars>>

NextCalls ==
    \/ EvaluateQuizOp
    \/ CalculateGradeOp
    \/ FindKnowledgeGapsOp
    \/ QueryOp
    \/ ExplainOp
    \/ CategorizeDifficultyOp

SpecCalls == Init /\ [][NextCalls]_vars

----------------------------------------------------------------------------
(* Chunker claims *)

Called == callResult.status # "none"

Step == chunk_size - chunk_overlap

\* words occurring in both chunks (the words of a call's text are distinct)
SharedWords(a, b) == Elems(a) \cap Elems(b)

\* the last O words of the earlier chunk are the first O words of the later one,
\* and the two chunks have no other word in common
OverlapExactly(a, b, o) ==
    /\ Len(a) >= o
    /\ Len(b) >= o
    /\ LastN(a, o) = FirstN(b, o)
    /\ Cardinality(SharedWords(a, b)) = o

\* C1: with 0 <= O < S a text of W words gives exactly ceil(W / (S - O)) chunks
\* (none when W = 0), and chunk j is words[j*(S-O) : j*(S-O)+S], in order.
C1_ChunkCountAndContent ==
    (Called /\ chunk_overlap < chunk_size) =>
        /\ callResult.status = "ok"
        /\ Len(callResult.chunks) = CeilDiv(Len(callText), Step)
        /\ \A j \in 0..(Len(callResult.chunks) - 1) :
              callResult.chunks[j + 1] =
                  SubSeq(callText, j * Step + 1,
                         Min(j * Step + chunk_size, Len(callText)))

C1_Witness ==
    /\ Called
    /\ chunk_overlap > 0
    /\ chunk_overlap < chunk_size
    /\ Len(callResult.chunks) >= 3
    /\ Len(callResult.chunks[Len(callResult.chunks)]) < chunk_size

\* C2 as stated: with O < S every two consecutive chunks share exactly O words,
\* except the pair whose later chunk is the final chunk.
C2_OverlapExceptFinalPair ==
    (Called /\ chunk_overlap < chunk_size) =>
        \A j \in 1..(Len(callResult.chunks) - 2) :
            OverlapExactly(callResult.chunks[j], callResult.chunks[j + 1],
                           chunk_overlap)

\* C2 amended: two consecutive chunks share exactly O words whenever the earlier
\* chunk holds the full S words, which is every pair whose later chunk is not
\* final when 2*O <= S; a pair whose earlier chunk is shorter than S shares
\* fewer than O words (all words of the later chunk, which is then a suffix).
C2_OverlapWhenEarlierFull ==
    (Called /\ chunk_overlap < chunk_size) =>
        /\ \A j \in 1..(Len(callResult.chunks) - 1) :
              IF Len(callResult.chunks[j]) = chunk_size
              THEN OverlapExactly(callResult.chunks[j],
                                  callResult.chunks[j + 1], chunk_overlap)
              ELSE /\ Cardinality(SharedWords(callResult.chunks[j],
                                              callResult.chunks[j + 1]))
                          < chunk_overlap
                   /\ callResult.chunks[j + 1] =
                          LastN(callResult.chunks[j],
                                Len(callResult.chunks[j + 1]))
        /\ 2 * chunk_overlap <= chunk_size =>
              \A j \in 1..(Len(callResult.chunks) - 2) :
                  Len(callResult.chunks[j]) = chunk_size

C2_Witness ==
    /\ Called
    /\ chunk_overlap > 0
    /\ 2 * chunk_overlap <= chunk_size
    /\ Len(callResult.chunks) >= 3
    /\ \E j \in 1..(Len(callResult.chunks) - 1) :
          Len(callResult.chunks[j]) < chunk_size

\* C3: chunking with overlap >= size (equal or greater) fails with an error and
\* returns no chunk list.
C3_OverlapNotBelowSizeFails ==
    (Called /\ chunk_overlap >= chunk_size) => callResult.status = "error"

----------------------------------------------------------------------------
(* Application claims *)

\* C4: after delete_collection the store stays usable: the count is 0, a search
\* returns an empty result rather than failing, and an add succeeds.
C4_StoreUsableAfterDelete ==
    ~store.live =>
        /\ GetCollectionCount(store) = [count |-> 0]
        /\ \A q \in Questions :
              Search(store, q, 5) = {[documents |-> <<>>, metadatas |-> <<>>]}
        /\ ~IsRaised(AddDocuments(store, <<"photosynthesis occurs in chloroplasts.">>,
                                  <<[file_name |-> "photo.txt", chunk_index |-> 0]>>))

\* C5: every call of query appends its question to query_history, also when the
\* call then raises: a run of the Ask Questions page leaves the history it
\* found followed by the questions of all the query calls it made, in order.
C5_QueryAlwaysAppends ==
    [][lastRun'.page = "ask" =>
          query_history' = query_history \o lastRun'.asked]_vars

C5_Witness ==
    /\ lastRun.page = "ask"
    /\ lastRun.raised
    /\ lastRun.asked # <<>>
    /\ query_history # <<>>
    /\ query_history[Len(query_history)] = lastRun.asked[Len(lastRun.asked)]

\* C6: query is the only operation that changes query_history: the history is
\* always exactly the questions passed to query, in call order, and a run of
\* any page but Ask Questions, and Clear All Data, leave it as it is.
C6_OnlyQueryChangesHistory ==
    /\ [](query_history = queryLog)
    /\ [][lastRun'.page # "ask" => query_history' = query_history]_vars

C6_Witness ==
    /\ lastRun.page = "clear"
    /\ ~lastRun.raised
    /\ query_history # <<>>
    /\ query_history = queryLog

\* the entries of a longer collection that follow those of the current store
Beyond(entries) == SubSeq(entries, Len(store.entries) + 1, Len(entries))

RECURSIVE EachAlone(_)
WithAlone(one, rest) ==
    [reports |-> <<one.report>> \o rest.reports,
     entries |-> Beyond(one.store.entries) \o rest.entries]

\* per file of the batch, what its upload alone would report against the
\* current store, and the entries it would add, in batch order
EachAlone(batch) ==
    IF batch = <<>> THEN [reports |-> <<>>, entries |-> <<>>]
    ELSE WithAlone(UploadOne(store, Head(batch), chunk_size, chunk_overlap),
                   EachAlone(Tail(batch)))

\* the reports shown and the collection left are those of the files alone
OutcomeIs(alone, shown, left) ==
    /\ shown = alone.reports
    /\ left.live = store.live
    /\ left.entries = store.entries \o alone.entries

\* C7: a failing document does not stop a batch upload: every document of the
\* batch gets its own report, the report it would get alone, and the chunks
\* of every document that succeeds are added to the index, in batch order.
C7_BatchFailuresAreNotFatal ==
    [][lastRun'.page = "upload" =>
          /\ Len(lastRun'.shown) = Len(lastRun'.input)
          /\ OutcomeIs(EachAlone(lastRun'.input), lastRun'.shown, store')]_vars

C7_Witness ==
    /\ lastRun.page = "upload"
    /\ lastRun.shown = <<"error", "success">>
    /\ store.live
    /\ store.entries # <<>>
    /\ store.entries[Len(store.entries)].metadata.file_name
          = lastRun.input[2].file.name

\* a run of the Generate Quiz page in which generate_quiz was called and
\* returned after its search found no chunk
GeneratedOnNothing(run) ==
    /\ run.page = "quiz"
    /\ run.input[1] = "generate"
    /\ run.shown # <<>>
    /\ run.shown[1].found = <<>>
    /\ ~IsRaised(run.shown[1].returned)

\* C8: generate_quiz whose search returns no chunk returns an error outcome
\* without questions or quiz fields, whatever the quiz type, and the page run
\* leaves the stored quiz_data and quiz_answers as they were.
C8_NoContentKeepsStoredQuiz ==
    [][GeneratedOnNothing(lastRun') =>
          /\ DOMAIN lastRun'.shown[1].returned = {"error"}
          /\ lastRun'.shown[1].returned = NoContentError
          /\ quiz_data' = quiz_data
          /\ quiz_answers' = quiz_answers]_vars

C8_Witness ==
    /\ GeneratedOnNothing(lastRun)
    /\ lastRun.input[4] = "true_false"
    /\ lastRun.shown[1].returned = NoContentError
    /\ ~lastRun.raised
    /\ documents_uploaded
    /\ quiz_data = None

----------------------------------------------------------------------------
(* Quiz claims *)

\* a true_false quiz has been generated from a non-empty index
QuizMade ==
    /\ quizOutput # None
    /\ quizInput.entries # <<>>
    /\ "questions" \in DOMAIN quizOutput.returned

Items == quizOutput.returned.questions

\* the sentences the items were built from
SourceSentences == CandidateSentences(Join(quizOutput.found, " "))

\* item i (counted from 0) is labelled True when i is even, False when odd
LabelsAlternate ==
    \A k \in 1..Len(Items) :
        Items[k].correct_answer = (IF (k - 1) % 2 = 0 THEN "True" ELSE "False")

\* C9 as stated: generate_quiz(topic, n, "true_false") on a non-empty index
\* produces n items whose labels alternate by index parity.
C9_ProducesNAlternating ==
    QuizMade => /\ Len(Items) = quizInput.num_questions
                /\ LabelsAlternate

\* C9 amended: it produces min(n, k) items, k the number of sentences of the
\* retrieved passages longer than 20 characters, and their labels alternate
\* by index parity.
C9_AlternatingUpToSentences ==
    QuizMade => /\ Len(Items) = Min(quizInput.num_questions, Len(SourceSentences))
                /\ quizOutput.returned.num_questions = Len(Items)
                /\ LabelsAlternate

C9_Witness ==
    /\ QuizMade
    /\ Len(Items) >= 3
    /\ Len(Items) < quizInput.num_questions
    /\ Items[1].correct_answer = "True"
    /\ Items[2].correct_answer = "False"
    /\ Items[3].correct_answer = "True"

\* the statement of an item: its question without the "True or False: " prefix
Statement(item) == Drop(item.question, Len(TrueFalsePrefix))

\* the sentence with the first phrase of the list that matches replaced once
\* by its negation and nothing else changed; the sentence when none matches
NegatedOnly(sentence) ==
    IF FirstModification(sentence) = 0 THEN sentence
    ELSE ReplaceAt(sentence,
                   Find(StrLower(sentence),
                        Modifications[FirstModification(sentence)][1]),
                   Modifications[FirstModification(sentence)][1],
                   Modifications[FirstModification(sentence)][2])

\* C10: a True item carries its source sentence unmodified; a False item
\* carries the sentence with the first matching phrase replaced once by its
\* negation and differs from the sentence by that substitution only (not at
\* all when no phrase matches).
C10_FalseItemDiffersBySubstitutionOnly ==
    QuizMade =>
        \A k \in 1..Len(Items) :
            Statement(Items[k]) =
                (IF Items[k].correct_answer = "True"
                 THEN SourceSentences[k]
                 ELSE NegatedOnly(SourceSentences[k]))

----------------------------------------------------------------------------
(* Claims about direct calls *)

\* the last direct call was a call of the operation name
Did(name) == opInput # None /\ opInput.op = name

QuizBuilt ==
    /\ Did("generate_quiz")
    /\ "questions" \in DOMAIN opOutput.returned

Built == opOutput.returned.questions

OfType(items, type) == SelectSeq(items, LAMBDA q : q.type = type)

\* the sentences the questions were built from
Candidates == CandidateSentences(Join(opOutput.found, " "))

\* the text of a multiple-choice prompt after "Fill in the blank: "
Blanked(item) == Drop(item.question, Len("Fill in the blank: "))

\* item has four options A-D made of key_term and the three placeholders, is
\* answered by the one letter whose option is key_term, and shows "____" where
\* key_term stood
BuiltAround(item, key_term) ==
    /\ DOMAIN item.options = 1..4
    /\ Elems(item.options) = {key_term} \cup Elems(DummyOptions)
    /\ \E j \in 1..4 :
          /\ item.options[j] = key_term
          /\ \A i \in 1..4 : item.options[i] = key_term => i = j
          /\ item.correct_answer = Letter(j - 1)
    /\ Find(Blanked(item), "____") # 0
    /\ Find(Blanked(item), key_term) = 0

\* C11: every multiple_choice question has exactly four options keyed A-D,
\* made of a capitalized word chosen from its sentence and the three fixed
\* placeholders; correct_answer is the one letter whose option is the chosen
\* word, and the prompt has "____" in place of that word.
C11_FourOptionsOneCorrect ==
    QuizBuilt =>
        \A k \in 1..Len(Built) :
            Built[k].type = "multiple_choice" =>
                \E s \in 1..Len(Candidates) :
                    \E key_term \in CapitalizedWords(Candidates[s]) :
                        /\ BuiltAround(Built[k], key_term)
                        /\ Blanked(Built[k]) =
                              ReplaceAll(Candidates[s], key_term, "____")

C11_Witness ==
    /\ QuizBuilt
    /\ opInput.quiz_type = "multiple_choice"
    /\ Len(Built) = 3
    /\ Built[1].correct_answer = "C"
    /\ Built[1].options[3] = "The"
    /\ Built[2].correct_answer = "A"
    /\ Built[3].correct_answer = "D"

\* the first count candidate sentences that the generator of type can use
Usable(type, count) ==
    {i \in 1..Min(count, Len(Candidates)) :
        CASE type = "multiple_choice" -> CapitalizedWords(Candidates[i]) # {}
          [] type = "short_answer" ->
                Len(SplitWords(Candidates[i])) > MinAnswerWords
          [] OTHER -> TRUE}

\* the questions of type are one per usable sentence among the first count
OnePerUsable(type, count) ==
    /\ Len(OfType(Built, type)) = Cardinality(Usable(type, count))
    /\ Len(OfType(Built, type)) <= count

EveryCandidateQualifies ==
    /\ Usable("multiple_choice", Len(Candidates)) = 1..Len(Candidates)
    /\ Usable("short_answer", Len(Candidates)) = 1..Len(Candidates)

\* C12: a mixed quiz of n asks for n \div 3 multiple-choice, n \div 3
\* true/false and n - 2 * (n \div 3) short-answer questions; it holds at most
\* those numbers of each type (one per usable sentence), exactly those when
\* every candidate sentence qualifies for every type and there are at least n
\* of them, and nothing but questions of the three types, in any order.
C12_MixedCounts ==
    (QuizBuilt /\ opInput.quiz_type = "mixed") =>
        /\ OnePerUsable("multiple_choice", opInput.num_questions \div 3)
        /\ OnePerUsable("true_false", opInput.num_questions \div 3)
        /\ OnePerUsable("short_answer",
                        opInput.num_questions - 2 * (opInput.num_questions \div 3))
        /\ Len(Built) = Len(OfType(Built, "multiple_choice"))
                        + Len(OfType(Built, "true_false"))
                        + Len(OfType(Built, "short_answer"))
        /\ Elems(OfType(Built, "true_false")) =
              Elems(GenerateTrueFalse(Join(opOutput.found, " "),
                                      opInput.num_questions \div 3))
        /\ (EveryCandidateQualifies /\ Len(Candidates) >= opInput.num_questions)
              => Len(Built) = opInput.num_questions

C12_Witness ==
    /\ QuizBuilt
    /\ opInput.quiz_type = "mixed"
    /\ opInput.num_questions = 3
    /\ EveryCandidateQualifies
    /\ Len(Candidates) = 3
    /\ Built[1].type = "short_answer"
    /\ Built[2].type = "multiple_choice"
    /\ Built[3].type = "true_false"

\* C20: for every quiz type and every n >= 0 the returned quiz reports
\* num_questions = len(questions), holds at most n questions and, for a quiz
\* of a single type, at most as many as there are candidate sentences.
C20_SizeOfQuiz ==
    QuizBuilt =>
        /\ opOutput.returned.num_questions = Len(Built)
        /\ Len(Built) <= opInput.num_questions
        /\ opInput.quiz_type # "mixed" => Len(Built) <= Len(Candidates)

C20_Witness ==
    /\ QuizBuilt
    /\ opInput.quiz_type = "short_answer"
    /\ opInput.num_questions = 3
    /\ Len(Candidates) = 2
    /\ Len(Built) = 1
    /\ opOutput.returned.num_questions = 1

Evaluated == Did("evaluate_quiz")

Asked(k) == opInput.quiz.questions[k]

Outcome(k) == opOutput.results[k]

\* question k (counted from 1) was given no answer
Unanswered(k) == (k - 1) \notin DOMAIN opInput.user_answers

\* the answer evaluated for question k
Given(k) == IF Unanswered(k) THEN "" ELSE opInput.user_answers[k - 1]

\* C13: evaluate_quiz marks a multiple_choice or true_false question correct
\* exactly when the user's answer equals the recorded correct label ignoring
\* case; a question without an answer is evaluated with "" and marked
\* incorrect.
C13_LabelComparedIgnoringCase ==
    Evaluated =>
        \A k \in 1..Len(opInput.quiz.questions) :
            Asked(k).type \in {"multiple_choice", "true_false"} =>
                /\ Outcome(k).user_answer = Given(k)
                /\ Outcome(k).is_correct <=>
                      StrLower(Given(k)) = StrLower(Asked(k).correct_answer)
                /\ Unanswered(k) => ~Outcome(k).is_correct

C13_Witness ==
    /\ Evaluated
    /\ Len(opInput.quiz.questions) = 2
    /\ Asked(1).type = "multiple_choice"
    /\ Given(1) = "b"
    /\ Outcome(1).is_correct
    /\ Asked(2).type = "true_false"
    /\ Unanswered(2)
    /\ Outcome(2).user_answer = ""
    /\ ~Outcome(2).is_correct

\* the distinct words of more than 3 characters of the reference answer
KeyWords(k) ==
    {w \in Elems(SplitWords(StrLower(Asked(k).sample_answer))) : Len(w) > 3}

\* the key words that are words of the answer
Matched(k) == KeyWords(k) \cap Elems(SplitWords(StrLower(Given(k))))

\* C14: a short_answer question is marked correct exactly when the number of
\* distinct reference key words (more than 3 characters) that occur in the
\* answer is at least 30% of the number of distinct key words; when the
\* reference has no key word every answer, missing or empty, is correct.
C14_ThirtyPercentOfKeyWords ==
    Evaluated =>
        \A k \in 1..Len(opInput.quiz.questions) :
            Asked(k).type = "short_answer" =>
                /\ Outcome(k).is_correct <=>
                      10 * Cardinality(Matched(k)) >= 3 * Cardinality(KeyWords(k))
                /\ KeyWords(k) = {} => Outcome(k).is_correct

C14_Witness ==
    /\ Evaluated
    /\ Len(opInput.quiz.questions) = 2
    /\ Asked(1).type = "short_answer"
    /\ Cardinality(KeyWords(1)) = 6
    /\ Cardinality(Matched(1)) = 2
    /\ Outcome(1).is_correct
    /\ Asked(2).type = "short_answer"
    /\ KeyWords(2) = {}
    /\ Unanswered(2)
    /\ Outcome(2).is_correct

Graded == Did("_calculate_grade")

\* the graded percentage in hundredths of a percent
Hundredths == opInput.percentage.num

\* 4 for A down to 0 for F
Rank(grade) ==
    CASE grade = "A" -> 4 [] grade = "B" -> 3 [] grade = "C" -> 2
      [] grade = "D" -> 1 [] OTHER -> 0

\* C15: the grade is A from 90, B from 80 to below 90, C from 70 to below 80,
\* D from 60 to below 70 and F below 60 (so exactly 80.0 is B and 79.99 is C),
\* and no lower percentage gets a better grade.
C15_GradeLadder ==
    Graded =>
        /\ opOutput = "A" <=> Hundredths >= 9000
        /\ opOutput = "B" <=> (8000 <= Hundredths /\ Hundredths < 9000)
        /\ opOutput = "C" <=> (7000 <= Hundredths /\ Hundredths < 8000)
        /\ opOutput = "D" <=> (6000 <= Hundredths /\ Hundredths < 7000)
        /\ opOutput = "F" <=> Hundredths < 6000
        /\ \A lower \in {Hundredths - 1} \cup {500 * k : k \in 0..20} :
              (0 <= lower /\ lower <= Hundredths) =>
                  Rank(CalculateGrade(lower, 100 * 100)) <= Rank(opOutput)

C15_Witness ==
    /\ Graded
    /\ opInput.percentage = [num |-> 7999, den |-> 100]
    /\ opOutput = "C"
    /\ CalculateGrade(8000, 100 * 100) = "B"

GapsFound == Did("find_knowledge_gaps")

\* every word of the history, lower-cased, in order
HistoryWords ==
    IF opInput.history = <<>> THEN <<>>
    ELSE WordRuns(Join([k \in 1..Len(opInput.history) |->
                           StrLower(opInput.history[k])], " "))

FirstAt(words, word) ==
    CHOOSE k \in 1..Len(words) :
        words[k] = word /\ \A j \in 1..(k - 1) : words[j] # word

\* the words of more than 3 characters counted more often than word, or as
\* often and met earlier
Ahead(words, word) ==
    {u \in Elems(words) :
        /\ Len(u) > 3
        /\ \/ Occurrences(words, u) > Occurrences(words, word)
           \/ /\ Occurrences(words, u) = Occurrences(words, word)
              /\ FirstAt(words, u) < FirstAt(words, word)}

Listed(word) == \E k \in 1..Len(opOutput) : Find(opOutput[k], "'" \o word \o "'") # 0

OnlyAskMore ==
    Len(opInput.history) < 5 =>
        opOutput = <<"Upload more documents and ask more questions to identify knowledge gaps!">>

EveryFrequentListed(words) ==
    \A word \in Elems(words) : Occurrences(words, word) >= 3 => Listed(word)

\* C16 as stated: on fewer than 5 questions the result is the single fixed
\* prompting message; on 5 or more, every word that appears 3 or more times
\* across the history appears in the returned list.
C16_EveryFrequentWordListed ==
    GapsFound =>
        /\ OnlyAskMore
        /\ Len(opInput.history) >= 5 => EveryFrequentListed(HistoryWords)

TopFrequentListed(words) ==
    \A word \in Elems(words) :
        (/\ Len(word) > 3
         /\ Occurrences(words, word) >= 3
         /\ Cardinality(Ahead(words, word)) < 5)
            => WeakAreaLine(word, Occurrences(words, word)) \in Elems(opOutput)

\* C16 amended: on 5 or more questions, every word of more than 3 characters
\* that appears 3 or more times and has fewer than 5 such words ahead of it
\* (counted more often, or as often and met earlier) is listed with its count.
C16_TopFrequentLongWordsListed ==
    GapsFound =>
        /\ OnlyAskMore
        /\ Len(opInput.history) >= 5 => TopFrequentListed(HistoryWords)

SeedLeftOut(words) ==
    /\ Occurrences(words, "the") >= 3
    /\ Occurrences(words, "seed") = 3
    /\ Cardinality(Ahead(words, "seed")) = 5

C16_Witness ==
    /\ GapsFound
    /\ Len(opInput.history) = 5
    /\ Len(opOutput) = 5
    /\ Listed("cell")
    /\ Listed("stem")
    /\ ~Listed("seed")
    /\ ~Listed("the")
    /\ SeedLeftOut(HistoryWords)

Filtered ==
    /\ Did("query")
    /\ opInput.difficulty_level \in {"beginner", "intermediate", "advanced"}

Sources == opOutput.returned.sources

\* the entry's difficulty score lies in [min, max] of the level, in tenths
InLevel(entry, min, max) ==
    /\ min * AssessTextDifficulty(entry.document).den
          <= 10 * AssessTextDifficulty(entry.document).num
    /\ 10 * AssessTextDifficulty(entry.document).num
          <= max * AssessTextDifficulty(entry.document).den

InRequestedLevel(entry) ==
    CASE opInput.difficulty_level = "beginner" -> InLevel(entry, 0, 3)
      [] opInput.difficulty_level = "intermediate" -> InLevel(entry, 3, 7)
      [] OTHER -> InLevel(entry, 7, 10)

\* the sources are the entries of retrieved that lie in the band, in order
KeptFrom(retrieved, kept) ==
    /\ kept = SelectSeq(retrieved, InRequestedLevel)
    /\ Sources.documents = [k \in 1..Len(kept) |-> kept[k].document]
    /\ Sources.metadatas = [k \in 1..Len(kept) |-> kept[k].metadata]

\* C17: with a difficulty level, the sources of query are exactly the retrieved
\* chunks whose difficulty score lies in the level's [min, max] band, in their
\* retrieved order and each with its own metadata; when none lies in the band
\* the call returns empty sources and the fixed 'no relevant information'
\* response.
C17_SourcesAreChunksInBand ==
    Filtered =>
        /\ ~IsRaised(opOutput.returned)
        /\ \E order \in Shuffles(opInput.entries) :
              KeptFrom(FirstN(order, opInput.n_results),
                       SelectSeq(FirstN(order, opInput.n_results), InRequestedLevel))
        /\ Sources.documents = <<>> =>
              opOutput.returned.response = "I couldn't find relevant information in your study materials. Try uploading more documents or rephrasing your question."

C17_Witness ==
    /\ Filtered
    /\ opInput.difficulty_level = "intermediate"
    /\ opInput.n_results = 2
    /\ Len(opInput.entries) = 2
    /\ opInput.entries[1].document = "Hypothesis methodology."
    /\ opInput.entries[2].document = "The cat sat."
    /\ Sources.documents = <<"Hypothesis methodology.">>
    /\ Sources.metadatas = <<[file_name |-> "method.txt"]>>

C17_WitnessNoneInBand ==
    /\ Filtered
    /\ opInput.difficulty_level = "advanced"
    /\ Len(opInput.entries) = 2
    /\ Sources.documents = <<>>
    /\ Sources.metadatas = <<>>

Explained == Did("explain_like_im_five")

\* the '.'-separated sentences of context that have fewer than 20 words
ShortSentences(context) ==
    SelectSeq(SplitOn(context, "."), LAMBDA sentence : Len(SplitWords(sentence)) < 20)

\* the response is made of the first 3 of the short sentences, or of the first
\* 200 characters of the context when there is no short sentence
BuiltFrom(context, short) ==
    opOutput.response =
        (IF short # <<>>
         THEN "Here's a simple explanation:\n\n"
              \o Join([k \in 1..Min(3, Len(short)) |-> Strip(short[k])], ". ") \o "."
         ELSE "Let me explain this in simple terms:\n\n" \o Take(context, 200) \o "...")

ExplainedFrom(context) == BuiltFrom(context, ShortSentences(context))

\* C18: explain_like_im_five returns the fixed 'not found' message when the
\* search returns no chunk; otherwise the response is built from the first 3
\* sentences of the concatenated context that have fewer than 20 words, joined
\* with ". ", and falls back to the first 200 characters of the context only
\* when no sentence of the context has fewer than 20 words.
C18_FirstThreeShortSentences ==
    Explained =>
        IF opInput.entries = <<>>
        THEN opOutput = [response |-> "I couldn't find information about that topic. Try uploading more study materials!"]
        ELSE ExplainedFrom(Join(opOutput.sources.documents, " "))

\* a context whose first three sentences have 20 words each and whose fourth
\* is short is answered with the fallback
C18_FallbackDespiteShortSentence ==
    /\ Explained
    /\ Len(opInput.entries) = 2
    /\ Len(ShortSentences(Join(opOutput.sources.documents, " "))) >= 3
    /\ Take(opOutput.response, 37) = "Let me explain this in simple terms:\n"

\* categorize_difficulty was called on a score of [0, 1]
Categorized ==
    /\ Did("categorize_difficulty")
    /\ opInput.score.num <= opInput.score.den

\* the levels whose filter band the categorized score passes
Passing ==
    {level \in {"beginner", "intermediate", "advanced"} :
        MatchesDifficultyLevel(opInput.score, level)}

\* C19 as stated: every score in [0, 1] passes the filter band of exactly one
\* level, the one categorize_difficulty returns, 0.3 and 0.7 included.
C19_ExactlyTheCategorizedBand ==
    Categorized => Passing = {opOutput}

\* C19 amended: every score in [0, 1] passes the band of the level
\* categorize_difficulty returns; it passes no other band unless it is exactly
\* 0.3 (beginner and intermediate, categorized intermediate) or exactly 0.7
\* (intermediate and advanced, categorized advanced).
C19_CategorizedBandAndLowerAtThreshold ==
    Categorized =>
        /\ opOutput \in Passing
        /\ Passing = (CASE opInput.score.num = 30 -> {"beginner", "intermediate"}
                        [] opInput.score.num = 70 -> {"intermediate", "advanced"}
                        [] OTHER -> {opOutput})
        /\ opInput.score.num = 30 => opOutput = "intermediate"
        /\ opInput.score.num = 70 => opOutput = "advanced"

C19_Witness ==
    /\ Categorized
    /\ opInput.score = [num |-> 30, den |-> 100]
    /\ opOutput = "intermediate"
    /\ MatchesDifficultyLevel(opInput.score, "beginner")
    /\ MatchesDifficultyLevel(opInput.score, "intermediate")

\* the percentage returned is the rational p
PercentageIs(p) == opOutput.percentage.num * p.den = p.num * opOutput.percentage.den

\* C21: evaluate_quiz returns one result per question in question order, a
\* score equal to the number of results marked correct with
\* 0 <= score <= total_questions, and percentage = score / total_questions * 100
\* within [0, 100]; for a quiz without questions it returns score 0,
\* percentage 0 and grade F.
C21_ScoreCountsCorrectResults ==
    Evaluated =>
        /\ opOutput.total_questions = Len(opInput.quiz.questions)
        /\ DOMAIN opOutput.results = 1..Len(opInput.quiz.questions)
        /\ \A k \in 1..Len(opInput.quiz.questions) :
              Outcome(k).question = Asked(k).question
        /\ opOutput.score =
              Cardinality({k \in 1..Len(opOutput.results) : Outcome(k).is_correct})
        /\ 0 <= opOutput.score
        /\ opOutput.score <= opOutput.total_questions
        /\ opOutput.percentage.den > 0
        /\ 0 <= opOutput.percentage.num
        /\ opOutput.percentage.num <= 100 * opOutput.percentage.den
        /\ opOutput.total_questions > 0 =>
              PercentageIs([num |-> 100 * opOutput.score,
                            den |-> opOutput.total_questions])
        /\ opOutput.total_questions = 0 =>
              /\ opOutput.score = 0
              /\ PercentageIs([num |-> 0, den |-> 1])
              /\ opOutput.grade = "F"

C21_Witness ==
    /\ Evaluated
    /\ Len(opInput.quiz.questions) = 2
    /\ Asked(1).question # Asked(2).question
    /\ ~Outcome(1).is_correct
    /\ Outcome(2).is_correct
    /\ opOutput.score = 1
    /\ PercentageIs([num |-> 50, den |-> 1])
    /\ opOutput.grade = "F"

C21_WitnessNoQuestions ==
    /\ Evaluated
    /\ opInput.quiz.questions = <<>>
    /\ opOutput.score = 0
    /\ opOutput.grade = "F"

----------------------------------------------------------------------------
(* Ask Questions page: entries added by one user action *)

\* this step is a run of the Ask Questions page that got past its entry check
\* with the question typed and the button pressed (or "none")
AskedWith(button) ==
    /\ lastRun'.page = "ask"
    /\ EntryCheck(documents_uploaded, store) = "go"
    /\ lastRun'.input[3] = button

\* C22: on the Ask Questions page one user action with a non-empty question
\* (typing the question, or pressing 'Find key concepts' or 'Related topics')
\* adds exactly one entry to query_history, so that the 'Questions Asked'
\* count is the number of such actions.
C22_OneEntryPerAskAction ==
    [][(AskedWith("none") \/ AskedWith("concepts") \/ AskedWith("related"))
          => Len(query_history') = Len(query_history) + 1]_vars

\* one press of 'Find key concepts' has left the question twice in the
\* history, and the page showed both answers
C22_TwoEntriesForOnePress ==
    /\ lastRun.page = "ask"
    /\ lastRun.input[3] = "concepts"
    /\ ~lastRun.raised
    /\ Len(lastRun.shown) = 2
    /\ query_history = <<lastRun.input[1], lastRun.input[1]>>

\* typing the question without pressing a button adds one entry
C22_OneEntryWhenTyped ==
    [][AskedWith("none") => Len(query_history') = Len(query_history) + 1]_vars

====
